---- MODULE Spec2Model ----
(***************************************************************************)
(* Model of app.py of the recruitment report generator: the key cleaning,  *)
(* the Excel serial date formatting, the field classification loop of      *)
(* parse_json_data and the technical report flow that calls it.            *)
(*                                                                         *)
(* Python strings are TLA+ strings; a character is a string of length 1.   *)
(* A Python/JSON scalar is a record [t, n, s]: t is its type, n its number *)
(* (for a float, the number of halves, so 3 stands for 1.5) and s its text.*)
(***************************************************************************)
EXTENDS Integers, Sequences, FiniteSets, TLC

VARIABLES pc, raw_json, candidate_data, idx, metadata, qa_list, result,
          final_report, ui, fn_arg, fn_ret

vars == <<pc, raw_json, candidate_data, idx, metadata, qa_list, result,
          final_report, ui, fn_arg, fn_ret>>

(***************************************************************************)
(* Bounds of the model.                                                    *)
(***************************************************************************)
\* longest record (number of fields) of an uploaded document
MaxFields == 2
\* longest key of the key cleaning inputs, in fragments
MaxFrags == 2
\* the serial inputs of the date formatting are -MaxSerial .. MaxSerial and more
MaxSerial == 20

(***************************************************************************)
(* Python/JSON values.                                                     *)
(***************************************************************************)
NullV == [t |-> "null", n |-> 0, s |-> ""]
BoolV(b) == [t |-> "bool", n |-> IF b THEN 1 ELSE 0, s |-> ""]
IntV(i) == [t |-> "int", n |-> i, s |-> ""]
FloatV(halves) == [t |-> "float", n |-> halves, s |-> ""]
StrV(x) == [t |-> "str", n |-> 0, s |-> x]

\* Python truthiness of a scalar: `not serial`, `if value:`
IsTruthy(v) ==
    CASE v.t = "null" -> FALSE
      [] v.t = "str" -> v.s # ""
      [] OTHER -> v.n # 0

(***************************************************************************)
(* String helpers: str.replace, `in`, str.strip, str.lower, startswith.    *)
(***************************************************************************)
Char(s, i) == SubSeq(s, i, i)

StartsWith(s, p) == Len(s) >= Len(p) /\ SubSeq(s, 1, Len(p)) = p

Contains(s, sub) ==
    \E i \in 1..(Len(s) - Len(sub) + 1) : SubSeq(s, i, i + Len(sub) - 1) = sub

RECURSIVE ReplaceFirstOnly(_, _, _)
\* str.replace(old, new, 1): only the first occurrence is replaced
ReplaceFirstOnly(s, old, new) ==
    IF Len(s) < Len(old) THEN s
    ELSE IF SubSeq(s, 1, Len(old)) = old
         THEN new \o SubSeq(s, Len(old) + 1, Len(s))
         ELSE Char(s, 1) \o ReplaceFirstOnly(Tail(s), old, new)

RECURSIVE ReplaceAll(_, _, _)
ReplaceAll(s, old, new) ==
    IF Len(s) < Len(old) THEN s
    ELSE IF SubSeq(s, 1, Len(old)) = old
         THEN new \o ReplaceAll(SubSeq(s, Len(old) + 1, Len(s)), old, new)
         ELSE Char(s, 1) \o ReplaceAll(Tail(s), old, new)

\* str.replace(old, new): every occurrence, left to right, not overlapping
Replace(s, old, new) == ReplaceAll(s, old, new)

IsSpace(c) == c \in {" ", "\t", "\n", "\r"}

RECURSIVE LStrip(_)
LStrip(s) == IF Len(s) > 0 /\ IsSpace(Char(s, 1)) THEN LStrip(Tail(s)) ELSE s

RECURSIVE RStrip(_)
RStrip(s) ==
    IF Len(s) > 0 /\ IsSpace(Char(s, Len(s)))
    THEN RStrip(SubSeq(s, 1, Len(s) - 1)) ELSE s

Strip(s) == RStrip(LStrip(s))

UpperChars == "ABCDEFGHIJKLMNOPQRSTUVWXYZ"
LowerChars == "abcdefghijklmnopqrstuvwxyz"

UpperSet == { Char(UpperChars, i) : i \in 1..Len(UpperChars) }

\* the lower-case letter of each upper-case letter
LowerTable ==
    [ u \in UpperSet |->
        Char(LowerChars, CHOOSE i \in 1..Len(UpperChars) : Char(UpperChars, i) = u) ]

LowerChar(c) == IF c \in UpperSet THEN LowerTable[c] ELSE c

RECURSIVE Lower(_)
Lower(s) == IF s = "" THEN "" ELSE LowerChar(Char(s, 1)) \o Lower(Tail(s))

(***************************************************************************)
(* Decimal text of numbers: str(int), str(float), %d and %Y of strftime.   *)
(***************************************************************************)
Digits == "0123456789"

RECURSIVE NatStr(_)
NatStr(n) ==
    IF n < 10 THEN Char(Digits, n + 1)
    ELSE NatStr(n \div 10) \o Char(Digits, (n % 10) + 1)

IntStr(i) == IF i < 0 THEN "-" \o NatStr(-i) ELSE NatStr(i)

Abs(i) == IF i < 0 THEN -i ELSE i

\* str() of a float given in halves: 3 is "1.5", -1 is "-0.5", 4 is "2.0"
FloatStr(h) ==
    (IF h < 0 THEN "-" ELSE "") \o NatStr(Abs(h) \div 2)
        \o (IF Abs(h) % 2 = 1 THEN ".5" ELSE ".0")

\* str(value)
PyStr(v) ==
    CASE v.t = "str" -> v.s
      [] v.t = "int" -> IntStr(v.n)
      [] v.t = "float" -> FloatStr(v.n)
      [] v.t = "bool" -> (IF v.n = 1 THEN "True" ELSE "False")
      [] OTHER -> "None"

DigitSet == { Char(Digits, i) : i \in 1..Len(Digits) }

IsDigit(c) == c \in DigitSet

DigitVal(c) == (CHOOSE i \in 1..Len(Digits) : Char(Digits, i) = c) - 1

AllDigits(s) == Len(s) > 0 /\ \A i \in 1..Len(s) : IsDigit(Char(s, i))

RECURSIVE NatOfStr(_)
NatOfStr(s) ==
    IF s = "" THEN 0
    ELSE 10 * NatOfStr(SubSeq(s, 1, Len(s) - 1)) + DigitVal(Char(s, Len(s)))

\* The text float() accepts, for the texts of this model: surrounding white
\* space, an optional sign, then decimal digits.
Unsigned(s) ==
    IF Len(s) > 0 /\ Char(s, 1) \in {"-", "+"} THEN Tail(s) ELSE s

IsNumericText(s) == AllDigits(Unsigned(Strip(s)))

\* float(serial), in halves; for a text only where IsNumericText holds
ToFloat(v) ==
    CASE v.t = "float" -> v.n
      [] v.t = "str" ->
            (IF StartsWith(Strip(v.s), "-") THEN -2 ELSE 2)
                * NatOfStr(Unsigned(Strip(v.s)))
      [] OTHER -> 2 * v.n

\* float(serial) raises ValueError
FloatRaisesValueError(v) == v.t = "str" /\ ~IsNumericText(v.s)

(***************************************************************************)
(* Configuration and key cleaning.                                         *)
(***************************************************************************)
BIO_FIELDS ==
    << "ID", "ItemInternalId", "Start time", "Completion time", "Email",
       "Email1", "Name", "First & Last Name", "LinkedIn Profile URL",
       "Portfolio URL", "Position Type", "Degree", "Graduation Year",
       "Preferred Start Date", "Preferred Start Date1", "Submission Time" >>

BioNames == { BIO_FIELDS[i] : i \in 1..Len(BIO_FIELDS) }

\* the literal list of the date formatting test in parse_json_data
DATE_FIELDS ==
    { "Completion time", "Start time", "Submission Time",
      "Preferred Start Date", "Preferred Start Date1" }

\* the three replacements of clean_key, in order
Decode(key) ==
    Replace(Replace(Replace(key, "_x002e_", "."), "_x003a_", ":"),
            "_x0023_", "#")

clean_key(key) ==
    LET k == Decode(key) IN
    IF Contains(k, "LinkedIn Profile URL") THEN "LinkedIn Profile URL"
    ELSE IF Contains(k, "Portfolio URL") THEN "Portfolio URL"
    ELSE Strip(k)

\* bio_key.lower() of each bio_key in BIO_FIELDS
BioLower == { Lower(BIO_FIELDS[i]) : i \in 1..Len(BIO_FIELDS) }

\* any(bio_key.lower() == clean_k.lower() for bio_key in BIO_FIELDS)
IsBio(clean_k) == Lower(clean_k) \in BioLower

\* clean_k in ['Completion time', ...]
IsDateField(clean_k) == clean_k \in DATE_FIELDS

(***************************************************************************)
(* format_excel_date: datetime(1899, 12, 30) + timedelta(days=float(serial)) *)
(* and strftime("%B %d, %Y").  Dates are proleptic Gregorian ordinals, day *)
(* 1 being 0001-01-01, as in Python's datetime.                            *)
(***************************************************************************)
\* datetime.datetime(1899, 12, 30).toordinal()
BaseOrdinal == 693594
\* datetime.max.toordinal(), 9999-12-31
MaxOrdinal == 3652059
\* the largest magnitude timedelta(days=...) accepts
MaxDeltaDays == 999999999

MonthNames ==
    << "January", "February", "March", "April", "May", "June", "July",
       "August", "September", "October", "November", "December" >>

IsLeap(y) == y % 4 = 0 /\ (y % 100 # 0 \/ y % 400 = 0)

DaysInMonth(y, m) ==
    IF m = 2 THEN (IF IsLeap(y) THEN 29 ELSE 28)
    ELSE IF m \in {4, 6, 9, 11} THEN 30 ELSE 31

RECURSIVE MonthDay(_, _, _)
\* the month and day of the d-th day (from 0) of year y, from month m on
MonthDay(y, m, d) ==
    IF d < DaysInMonth(y, m) THEN [month |-> m, day |-> d + 1]
    ELSE MonthDay(y, m + 1, d - DaysInMonth(y, m))

\* year, month and day of an ordinal
OrdToYmd(ord) ==
    LET n0 == ord - 1
        n400 == n0 \div 146097
        r400 == n0 % 146097
        n100 == r400 \div 36524
        r100 == r400 % 36524
        n4 == r100 \div 1461
        r4 == r100 % 1461
        n1 == r4 \div 365
        r1 == r4 % 365
        y == n400 * 400 + n100 * 100 + n4 * 4 + n1 + 1
    IN IF n1 = 4 \/ n100 = 4
       THEN [year |-> y - 1, month |-> 12, day |-> 31]
       ELSE LET md == MonthDay(y, 1, r1)
            IN [year |-> y, month |-> md.month, day |-> md.day]

TwoDigits(n) == IF n < 10 THEN "0" \o NatStr(n) ELSE NatStr(n)

\* strftime("%B %d, %Y") of the date with this ordinal
LongDate(ord) ==
    LET d == OrdToYmd(ord)
    IN MonthNames[d.month] \o " " \o TwoDigits(d.day) \o ", " \o NatStr(d.year)

\* whole days of float(serial): the time of day does not reach the format
FloorDays(v) == ToFloat(v) \div 2

\* timedelta(days=...) or base_date + delta raises OverflowError, which the
\* `except ValueError` of format_excel_date does not catch
DateOverflows(v) ==
    \/ Abs(FloorDays(v)) > MaxDeltaDays
    \/ BaseOrdinal + FloorDays(v) < 1
    \/ BaseOrdinal + FloorDays(v) > MaxOrdinal

\* format_excel_date raises (the exception leaves the function)
format_excel_date_raises(serial) ==
    /\ IsTruthy(serial)
    /\ ~FloatRaisesValueError(serial)
    /\ DateOverflows(serial)

\* the value format_excel_date returns when it does not raise
format_excel_date(serial) ==
    IF ~IsTruthy(serial) THEN StrV("N/A")
    ELSE IF FloatRaisesValueError(serial) THEN serial
    ELSE StrV(LongDate(BaseOrdinal + FloorDays(serial)))

(***************************************************************************)
(* The uploaded documents.  json.loads either raises or yields a value; a  *)
(* document is given by the value it parses to:                            *)
(*   kind "invalid"       text that is not JSON                            *)
(*   kind "scalar"        a top-level number, text, boolean or null        *)
(*   kind "array"         a top-level array of `items`                     *)
(*   kind "object"        an object without the key 'value'                *)
(*   kind "value_scalar"  an object whose 'value' is a number              *)
(*   kind "value"         an object whose 'value' is the array `items`     *)
(* An item is a record (an object: its fields in document order, the keys  *)
(* distinct) or not a record (a number).                                   *)
(***************************************************************************)
\* every scalar the classification and the date formatting tell apart
Values ==
    { NullV, StrV(""), IntV(0), BoolV(FALSE), StrV("0"), IntV(1),
      StrV("abc"), IntV(3000000) }

\* date-valued names, in the listed spelling and in lower case
DateKeys == { "Completion time", "completion time" }

\* a URL field and its versioned variant
UrlKeys == { "LinkedIn Profile URL", "LinkedIn Profile URL2" }

UrlValues == { NullV, StrV("abc"), StrV("0") }

\* technical questions, with an encoded character or surrounding blanks
QuestionKeys == { "Skill_x002e_", " Q1 " }

\* internal fields of the export
InternalKeys == { "@odata.etag" }

InternalValues == { StrV("abc"), NullV }

Fields ==
    [key : DateKeys \cup QuestionKeys, value : Values]
      \cup [key : UrlKeys, value : UrlValues]
      \cup [key : {"Portfolio URL3"}, value : {StrV("abc")}]
      \cup [key : InternalKeys, value : InternalValues]

KeysOf(rec) == { rec[i].key : i \in 1..Len(rec) }

RECURSIVE RecordsOfLen(_)
RecordsOfLen(n) ==
    IF n = 0 THEN { <<>> }
    ELSE { Append(p[1], p[2]) :
             p \in { q \in RecordsOfLen(n - 1) \X Fields :
                       q[2].key \notin KeysOf(q[1]) } }

ShortRecords == RecordsOfLen(0) \cup RecordsOfLen(1)

Rec(r) == [isRec |-> TRUE, fields |-> r]
NonRec == [isRec |-> FALSE, fields |-> <<>>]

\* a second row of the export, which parse_json_data never reads
OtherRow == Rec(<< [key |-> "Name", value |-> StrV("B")] >>)

Doc(k, its) == [kind |-> k, items |-> its]

SmallDocs ==
    { Doc("array", << Rec(r), OtherRow >>) : r \in ShortRecords }
      \cup { Doc("value", << Rec(r) >>) : r \in ShortRecords }
      \cup { Doc("value", << Rec(r), OtherRow >>) : r \in ShortRecords }
      \cup { Doc("invalid", <<>>), Doc("scalar", <<>>), Doc("array", <<>>),
             Doc("array", << NonRec >>), Doc("array", << NonRec, OtherRow >>),
             Doc("object", <<>>), Doc("value_scalar", <<>>),
             Doc("value", <<>>), Doc("value", << NonRec >>) }

(***************************************************************************)
(* Dictionaries, optional values and the pair parse_json_data returns.     *)
(***************************************************************************)
EmptyDict == [k \in {} |-> NullV]

\* d.setdefault(k, v): a key that is already there keeps its value
DictSetDefault(d, k, v) ==
    [x \in (DOMAIN d) \cup {k} |-> IF x \in DOMAIN d THEN d[x] ELSE v]

\* d[k] = v of a dict d: a key that is already there gets the new value
DictSet(d, k, v) == [x \in (DOMAIN d) \cup {k} |-> IF x = k THEN v ELSE d[x]]

\* d.get(k, default)
DictGet(d, k, default) == IF k \in DOMAIN d THEN d[k] ELSE default

None == [none |-> TRUE, v |-> <<>>]
Some(x) == [none |-> FALSE, v |-> x]

\* return None, None
FailurePair == << None, None >>

\* return metadata, qa_list
ResultPair(m, q) == << Some(m), Some(q) >>

NoResult == << >>

(***************************************************************************)
(* The technical report flow.                                              *)
(***************************************************************************)
Init ==
    /\ pc = "idle"
    /\ raw_json = Doc("invalid", <<>>)
    /\ candidate_data = <<>>
    /\ idx = 0
    /\ metadata = EmptyDict
    /\ qa_list = <<>>
    /\ result = NoResult
    /\ final_report = <<>>
    /\ ui = <<>>
    /\ fn_arg = ""
    /\ fn_ret = <<>>

\* uploaded_tech_file is not None: the file's text is read
Upload ==
    /\ pc = "idle"
    /\ \/ \E n \in 0..MaxFields : \E r \in RecordsOfLen(n) :
             raw_json' = Doc("array", << Rec(r) >>)
       \/ \E doc \in SmallDocs : raw_json' = doc
    /\ pc' = "parse"
    /\ UNCHANGED <<candidate_data, idx, metadata, qa_list, result,
                   final_report, ui, fn_arg, fn_ret>>

\* the document has a first item for candidate_data
HasFirstItem(doc) == doc.kind \in {"array", "value"} /\ Len(doc.items) > 0

\* json.loads, data[0] or data['value'][0], or the first use of
\* candidate_data (.items()) raises
ExtractRaises(doc) ==
    \/ doc.kind = "invalid"
    \/ doc.kind = "value_scalar"
    \/ doc.kind = "value" /\ Len(doc.items) = 0
    \/ HasFirstItem(doc) /\ ~doc.items[1].isRec

\* neither branch of the shape test applies: the else branch
ExtractElse(doc) ==
    \/ doc.kind \in {"scalar", "object"}
    \/ doc.kind = "array" /\ Len(doc.items) = 0

\* the record the loop of parse_json_data runs over
first_record(doc) == doc.items[1].fields

\* the shape test finds a record: metadata and qa_list start empty
ExtractRecord ==
    /\ pc = "parse"
    /\ HasFirstItem(raw_json) /\ raw_json.items[1].isRec
    /\ candidate_data' = first_record(raw_json)
    /\ metadata' = EmptyDict
    /\ qa_list' = <<>>
    /\ idx' = 1
    /\ pc' = "loop"
    /\ UNCHANGED <<raw_json, result, final_report, ui, fn_arg, fn_ret>>

\* the else branch: return None, None
ExtractNone ==
    /\ pc = "parse"
    /\ ExtractElse(raw_json)
    /\ result' = FailurePair
    /\ pc' = "returned"
    /\ UNCHANGED <<raw_json, candidate_data, idx, metadata, qa_list,
                   final_report, ui, fn_arg, fn_ret>>

\* an exception before the loop: st.error and return None, None
ExtractException ==
    /\ pc = "parse"
    /\ ExtractRaises(raw_json)
    /\ ui' = Append(ui, "JSON Parsing Error")
    /\ result' = FailurePair
    /\ pc' = "returned"
    /\ UNCHANGED <<raw_json, candidate_data, idx, metadata, qa_list,
                   final_report, fn_arg, fn_ret>>

\* the field the loop is at
CurKey == candidate_data[idx].key
CurValue == candidate_data[idx].value

InLoop == pc = "loop" /\ idx <= Len(candidate_data)

\* key.startswith("@")
IsInternal(key) == StartsWith(key, "@")

\* metadata[clean_k] = ... : the value a biographical field is stored with
StoredValue(clean_k, value) ==
    IF IsDateField(clean_k) THEN format_excel_date(value) ELSE value

\* the biographical branch raises: only format_excel_date can
StoreRaises(clean_k, value) ==
    IsDateField(clean_k) /\ format_excel_date_raises(value)

\* the answer is appended whatever the value
QaAppendAlways(qa, clean_k, value) ==
    Append(qa, [question |-> clean_k, answer |-> PyStr(value)])

\* if value: qa_list.append({'question': clean_k, 'answer': str(value)})
QaAppend(qa, clean_k, value) ==
    IF IsTruthy(value)
    THEN Append(qa, [question |-> clean_k, answer |-> PyStr(value)])
    ELSE qa

\* if key.startswith("@"): continue
LoopSkip ==
    /\ InLoop
    /\ IsInternal(CurKey)
    /\ idx' = idx + 1
    /\ UNCHANGED <<pc, raw_json, candidate_data, metadata, qa_list, result,
                   final_report, ui, fn_arg, fn_ret>>

\* a biographical field is stored in metadata
LoopBio ==
    /\ InLoop
    /\ ~IsInternal(CurKey)
    /\ IsBio(clean_key(CurKey))
    /\ ~StoreRaises(clean_key(CurKey), CurValue)
    /\ metadata' = DictSet(metadata, clean_key(CurKey),
                           StoredValue(clean_key(CurKey), CurValue))
    /\ idx' = idx + 1
    /\ UNCHANGED <<pc, raw_json, candidate_data, qa_list, result,
                   final_report, ui, fn_arg, fn_ret>>

\* format_excel_date raises in the loop: except Exception, st.error and
\* return None, None
LoopException ==
    /\ InLoop
    /\ ~IsInternal(CurKey)
    /\ IsBio(clean_key(CurKey))
    /\ StoreRaises(clean_key(CurKey), CurValue)
    /\ ui' = Append(ui, "JSON Parsing Error")
    /\ result' = FailurePair
    /\ pc' = "returned"
    /\ UNCHANGED <<raw_json, candidate_data, idx, metadata, qa_list,
                   final_report, fn_arg, fn_ret>>

\* a technical question
LoopQuestion ==
    /\ InLoop
    /\ ~IsInternal(CurKey)
    /\ ~IsBio(clean_key(CurKey))
    /\ qa_list' = QaAppend(qa_list, clean_key(CurKey), CurValue)
    /\ idx' = idx + 1
    /\ UNCHANGED <<pc, raw_json, candidate_data, metadata, result,
                   final_report, ui, fn_arg, fn_ret>>

\* return metadata, qa_list
Return ==
    /\ pc = "loop"
    /\ idx > Len(candidate_data)
    /\ result' = ResultPair(metadata, qa_list)
    /\ pc' = "returned"
    /\ UNCHANGED <<raw_json, candidate_data, idx, metadata, qa_list,
                   final_report, ui, fn_arg, fn_ret>>

\* the caller's test `if metadata:` on the first element of the pair
MetadataTruthy(res) == ~res[1].none /\ DOMAIN res[1].v # {}

\* render_report: the template's slots, each with its fallback
render_report(md, qa) ==
    [ candidate_name |->
          DictGet(md, "First & Last Name",
                  DictGet(md, "Name", StrV("Unknown Candidate"))),
      position_type |-> DictGet(md, "Position Type", StrV("N/A")),
      email |-> DictGet(md, "Email1", DictGet(md, "Email", StrV("N/A"))),
      submission_time |-> DictGet(md, "Completion time", StrV("N/A")),
      preferred_start_date |->
          DictGet(md, "Preferred Start Date1",
                  DictGet(md, "Preferred Start Date", StrV("N/A"))),
      linkedin_url |-> DictGet(md, "LinkedIn Profile URL", StrV("#")),
      portfolio_url |-> DictGet(md, "Portfolio URL", StrV("#")),
      degree |-> DictGet(md, "Degree", StrV("N/A")),
      grad_year |-> DictGet(md, "Graduation Year", StrV("N/A")),
      qa_list |-> qa ]

\* if metadata: render, st.success, download button and preview
Render ==
    /\ pc = "returned"
    /\ MetadataTruthy(result)
    /\ final_report' = << render_report(result[1].v, result[2].v) >>
    /\ ui' = Append(ui, "Report Generated Successfully!")
    /\ pc' = "done"
    /\ UNCHANGED <<raw_json, candidate_data, idx, metadata, qa_list, result,
                   fn_arg, fn_ret>>

\* else: st.error("Could not parse the JSON file. ...")
ShowError ==
    /\ pc = "returned"
    /\ ~MetadataTruthy(result)
    /\ ui' = Append(ui, "Could not parse the JSON file")
    /\ pc' = "done"
    /\ UNCHANGED <<raw_json, candidate_data, idx, metadata, qa_list, result,
                   final_report, fn_arg, fn_ret>>

Next ==
    \/ Upload
    \/ ExtractRecord
    \/ ExtractNone
    \/ ExtractException
    \/ LoopSkip
    \/ LoopBio
    \/ LoopException
    \/ LoopQuestion
    \/ Return
    \/ Render
    \/ ShowError

Spec == Init /\ [][Next]_vars

(***************************************************************************)
(* format_excel_date on its own: one call on each serial of SerialInputs:   *)
(* whole and fractional numbers, texts and null.                           *)
(***************************************************************************)
SerialInputs ==
    { IntV(i) : i \in (-MaxSerial)..MaxSerial }
      \cup { FloatV(h) : h \in (-MaxSerial)..MaxSerial }
      \cup { NullV, StrV(""), StrV("abc"), StrV("not-a-number"), StrV("1"), StrV("0"),
             StrV(" 12 "), StrV("-3"),
             IntV(60), IntV(61), IntV(45000), IntV(2958465), IntV(2958466),
             IntV(3000000), IntV(-693594) }

InitDate ==
    /\ pc = "date_call"
    /\ fn_arg \in SerialInputs
    /\ fn_ret = <<>>
    /\ raw_json = Doc("invalid", <<>>)
    /\ candidate_data = <<>>
    /\ idx = 0
    /\ metadata = EmptyDict
    /\ qa_list = <<>>
    /\ result = NoResult
    /\ final_report = <<>>
    /\ ui = <<>>

\* the call returns
FormatReturn ==
    /\ pc = "date_call"
    /\ ~format_excel_date_raises(fn_arg)
    /\ fn_ret' = << format_excel_date(fn_arg) >>
    /\ pc' = "date_returned"
    /\ UNCHANGED <<raw_json, candidate_data, idx, metadata, qa_list, result,
                   final_report, ui, fn_arg>>

\* the call raises OverflowError
FormatRaise ==
    /\ pc = "date_call"
    /\ format_excel_date_raises(fn_arg)
    /\ pc' = "date_raised"
    /\ UNCHANGED <<raw_json, candidate_data, idx, metadata, qa_list, result,
                   final_report, ui, fn_arg, fn_ret>>

NextDate == FormatReturn \/ FormatRaise

SpecDate == InitDate /\ [][NextDate]_vars

(***************************************************************************)
(* clean_key on its own: applied once, then to its own result.             *)
(***************************************************************************)
Fragments ==
    { "_x002e_", "_x003a_", "_x0023_", "_x002e", "x003a_", "_x00", "23_",
      "_", " ", "Q", ".", "2", "LinkedIn Profile URL", "Portfolio URL" }

RECURSIVE KeysOfFrags(_)
KeysOfFrags(n) ==
    IF n = 0 THEN { "" }
    ELSE { p[1] \o p[2] : p \in KeysOfFrags(n - 1) \X Fragments }

InitClean ==
    /\ pc = "clean_call"
    /\ \E n \in 0..MaxFrags : fn_arg \in KeysOfFrags(n)
    /\ fn_ret = <<>>
    /\ raw_json = Doc("invalid", <<>>)
    /\ candidate_data = <<>>
    /\ idx = 0
    /\ metadata = EmptyDict
    /\ qa_list = <<>>
    /\ result = NoResult
    /\ final_report = <<>>
    /\ ui = <<>>

CleanOnce ==
    /\ pc = "clean_call"
    /\ fn_ret' = << clean_key(fn_arg) >>
    /\ pc' = "clean_once"
    /\ UNCHANGED <<raw_json, candidate_data, idx, metadata, qa_list, result,
                   final_report, ui, fn_arg>>

CleanTwice ==
    /\ pc = "clean_once"
    /\ fn_ret' = Append(fn_ret, clean_key(fn_ret[1]))
    /\ pc' = "clean_twice"
    /\ UNCHANGED <<raw_json, candidate_data, idx, metadata, qa_list, result,
                   final_report, ui, fn_arg>>

NextClean == CleanOnce \/ CleanTwice

SpecClean == InitClean /\ [][NextClean]_vars

(***************************************************************************)
(* Vocabulary of the properties.                                           *)
(***************************************************************************)
\* parse_json_data has returned
Returned == pc \in {"returned", "done"}

\* the uploaded document holds a record where parse_json_data looks for it
Extracted == HasFirstItem(raw_json) /\ raw_json.items[1].isRec

\* that record
TheRecord == first_record(raw_json)

\* parse_json_data has returned a metadata mapping and a Q&A list
HasResult == Returned /\ ~result[1].none /\ ~result[2].none

MetaOut == result[1].v
QaOut == result[2].v

Questions(qa) == { qa[j].question : j \in 1..Len(qa) }

\* field i of the record is not internal and no later field that is not
\* internal has the same cleaned key
LastOfItsKey(rec, i) ==
    /\ ~IsInternal(rec[i].key)
    /\ \A j \in (i + 1)..Len(rec) :
          IsInternal(rec[j].key) \/ clean_key(rec[j].key) # clean_key(rec[i].key)

\* the cleaned key belongs to a field that is not internal
CleanedFromPublic(rec, ck) ==
    \E j \in 1..Len(rec) : ~IsInternal(rec[j].key) /\ clean_key(rec[j].key) = ck

\* the Q&A list as the filtered, mapped subsequence of a record
RECURSIVE ExpectedQa(_)
ExpectedQa(rec) ==
    IF Len(rec) = 0 THEN <<>>
    ELSE LET f == Head(rec)
             keep == /\ ~IsInternal(f.key)
                     /\ ~IsBio(clean_key(f.key))
                     /\ f.value \notin {StrV(""), IntV(0), BoolV(FALSE), NullV}
         IN (IF keep
             THEN << [question |-> clean_key(f.key), answer |-> PyStr(f.value)] >>
             ELSE <<>>) \o ExpectedQa(Tail(rec))

\* the cleaned key equals a date-valued name up to letter case
IsDateName(ck) == \E d \in DATE_FIELDS : Lower(d) = Lower(ck)

\* the record has a date-valued biographical field
HasDateField(rec) ==
    \E i \in 1..Len(rec) :
        ~IsInternal(rec[i].key) /\ IsDateField(clean_key(rec[i].key))

\* the names the versioned URL keys collapse to
UrlNames == { "LinkedIn Profile URL", "Portfolio URL" }

\* the canonical name, or the canonical name followed by digits
IsVersionOf(k, c) ==
    /\ StartsWith(k, c)
    /\ Len(k) = Len(c) \/ AllDigits(SubSeq(k, Len(c) + 1, Len(k)))

SetMax(S) == CHOOSE m \in S : \A x \in S : x <= m

\* the messages shown to the user
Messages == { ui[j] : j \in 1..Len(ui) }

(***************************************************************************)
(* C1: for every document from which a record is extracted, a key that     *)
(* begins with '@' contributes to neither Metadata nor the Q&A list, every *)
(* other key has its cleaned key in exactly one of them, never in both,    *)
(* and in neither only if it is not biographical and its value is falsy.   *)
(***************************************************************************)
C1_Partition ==
    (Returned /\ Extracted) =>
        \A i \in 1..Len(TheRecord) :
            LET k == TheRecord[i].key
                ck == clean_key(k)
                inMeta == ~result[1].none /\ ck \in DOMAIN result[1].v
                inQa == ~result[2].none /\ ck \in Questions(result[2].v)
            IN IF IsInternal(k)
               THEN CleanedFromPublic(TheRecord, ck) \/ (~inMeta /\ ~inQa)
               ELSE /\ ~(inMeta /\ inQa)
                    /\ (~inMeta /\ ~inQa)
                          => (~IsBio(ck) /\ ~IsTruthy(TheRecord[i].value))

(***************************************************************************)
(* C2: extraction is all or nothing.  Text that is not JSON, an empty      *)
(* array, an object without a usable 'value', any other shape and a first  *)
(* element that is not a record give (None, None); every other document    *)
(* gives a metadata mapping and a Q&A list, built from the first record    *)
(* only; never one of the two without the other.                           *)
(***************************************************************************)
C2_AllOrNothing ==
    Returned =>
        /\ result[1].none <=> result[2].none
        /\ IF Extracted
           THEN /\ ~result[1].none
                /\ ~result[2].none
                /\ \A ck \in (DOMAIN MetaOut) \cup Questions(QaOut) :
                      CleanedFromPublic(TheRecord, ck)
           ELSE result[1].none /\ result[2].none

(***************************************************************************)
(* C3: format_excel_date maps every numeric serial n, n = 0 included, to   *)
(* the long date of 1899-12-30 plus n days, where the calendar has that    *)
(* date (serial 1 to "December 31, 1899", serial 0 to "December 30,        *)
(* 1899"), returns "N/A" exactly for a null or empty value, and returns a  *)
(* text that is no number unchanged.                                       *)
(***************************************************************************)
C3_FormatDate ==
    (pc \in {"date_returned", "date_raised"}) =>
        /\ (fn_arg.t \in {"int", "float"} /\ ~DateOverflows(fn_arg)) =>
              /\ pc = "date_returned"
              /\ fn_ret[1] = StrV(LongDate(BaseOrdinal + FloorDays(fn_arg)))
        /\ fn_arg = IntV(1) => fn_ret[1] = StrV("December 31, 1899")
        /\ fn_arg = IntV(0) => fn_ret[1] = StrV("December 30, 1899")
        /\ pc = "date_returned" =>
              (fn_ret[1] = StrV("N/A") <=> fn_arg \in {NullV, StrV("")})
        /\ (fn_arg.t = "str" /\ fn_arg.s # "" /\ ~IsNumericText(fn_arg.s)) =>
              (pc = "date_returned" /\ fn_ret[1] = fn_arg)

(***************************************************************************)
(* C4: the Q&A list returned is the subsequence, in record order, of the   *)
(* fields that are not internal, not biographical and truthy, each as      *)
(* {question: cleaned key, answer: str(value)}: no answer is empty, a      *)
(* value "", 0, false or null is dropped and a value "0" is kept as "0".   *)
(***************************************************************************)
C4_QaList ==
    HasResult =>
        /\ QaOut = ExpectedQa(TheRecord)
        /\ \A j \in 1..Len(QaOut) : QaOut[j].answer # ""
        /\ \A i \in 1..Len(TheRecord) :
              LET f == TheRecord[i]
              IN (~IsInternal(f.key) /\ ~IsBio(clean_key(f.key))
                    /\ f.value = StrV("0"))
                 => \E j \in 1..Len(QaOut) :
                       QaOut[j] = [question |-> clean_key(f.key), answer |-> "0"]

\* a record whose first question is dropped for its value 0 and whose
\* second, with the text "0", is the only pair returned
C4_Witness ==
    /\ HasResult
    /\ Len(TheRecord) = 2
    /\ TheRecord[1] = [key |-> " Q1 ", value |-> IntV(0)]
    /\ TheRecord[2] = [key |-> "Skill_x002e_", value |-> StrV("0")]
    /\ QaOut = << [question |-> "Skill.", answer |-> "0"] >>

(***************************************************************************)
(* C5: every key of the Metadata mapping returned is a member of           *)
(* BIO_FIELDS, spelled as listed.                                          *)
(***************************************************************************)
C5_MetadataKeys == HasResult => (DOMAIN MetaOut) \subseteq BioNames

(***************************************************************************)
(* C6: a key whose cleaned form equals a biographical name up to letter    *)
(* case goes to Metadata and never to the Q&A list, and when that name is  *)
(* date-valued the value stored is the result of format_excel_date.        *)
(***************************************************************************)
C6_CaseInsensitiveDates ==
    HasResult =>
        \A i \in 1..Len(TheRecord) :
            LET ck == clean_key(TheRecord[i].key)
            IN (~IsInternal(TheRecord[i].key) /\ IsBio(ck)) =>
                  /\ ck \in DOMAIN MetaOut
                  /\ ck \notin Questions(QaOut)
                  /\ (IsDateName(ck) /\ LastOfItsKey(TheRecord, i)) =>
                        MetaOut[ck] = format_excel_date(TheRecord[i].value)

(***************************************************************************)
(* C7: a date-valued biographical field never aborts the transformation:   *)
(* whatever scalar it carries, a record that is extracted gives a          *)
(* (metadata, qa_list) result, a value that cannot be converted being      *)
(* stored unchanged.                                                       *)
(***************************************************************************)
C7_DateNeverAborts ==
    (Returned /\ Extracted /\ HasDateField(TheRecord)) =>
        /\ HasResult
        /\ \A i \in 1..Len(TheRecord) :
              LET ck == clean_key(TheRecord[i].key)
                  v == TheRecord[i].value
              IN (LastOfItsKey(TheRecord, i) /\ IsDateField(ck)
                    /\ v.t = "str" /\ v.s # "" /\ ~IsNumericText(v.s))
                 => MetaOut[ck] = v

(***************************************************************************)
(* C8: clean_key maps "LinkedIn Profile URL" and "LinkedIn Profile         *)
(* URL<digits>" to "LinkedIn Profile URL", likewise for "Portfolio URL",   *)
(* and of several keys of a record that collapse to one canonical name     *)
(* Metadata holds one entry, with the value of the last of them.           *)
(***************************************************************************)
C8_UrlCollapse ==
    HasResult =>
        \A c \in UrlNames :
            LET versions == { i \in 1..Len(TheRecord) :
                                IsVersionOf(TheRecord[i].key, c) }
                hits == { i \in 1..Len(TheRecord) :
                            /\ ~IsInternal(TheRecord[i].key)
                            /\ clean_key(TheRecord[i].key) = c }
            IN /\ versions \subseteq hits
               /\ hits # {} =>
                     /\ c \in DOMAIN MetaOut
                     /\ MetaOut[c] = TheRecord[SetMax(hits)].value
                     /\ c \notin Questions(QaOut)
                     /\ \A k \in DOMAIN MetaOut : Contains(k, c) => k = c

\* both spellings in one record, with different values: the later one stays
C8_Witness ==
    /\ HasResult
    /\ Len(TheRecord) = 2
    /\ TheRecord[1] = [key |-> "LinkedIn Profile URL2", value |-> StrV("abc")]
    /\ TheRecord[2] = [key |-> "LinkedIn Profile URL", value |-> StrV("0")]
    /\ DOMAIN MetaOut = {"LinkedIn Profile URL"}
    /\ MetaOut["LinkedIn Profile URL"] = StrV("0")

(***************************************************************************)
(* C9: clean_key is idempotent: clean_key(clean_key(k)) = clean_key(k)     *)
(* for every key, overlapping placeholders, surrounding blanks and URL     *)
(* markers included.                                                       *)
(***************************************************************************)
C9_Idempotent == pc = "clean_twice" => fn_ret[2] = fn_ret[1]

\* two placeholders that share an underscore: only the first is decoded
C9_Witness ==
    /\ pc = "clean_twice"
    /\ fn_arg = "_x002e_x003a_"
    /\ fn_ret = << ".x003a_", ".x003a_" >>

(***************************************************************************)
(* C10: whenever parse_json_data returns a result, a record without any    *)
(* biographical field included, the caller renders the report with the     *)
(* fallbacks; "Could not parse the JSON file" is shown only when           *)
(* parse_json_data returned (None, None).                                  *)
(***************************************************************************)
C10_MissingFieldsRender ==
    (pc = "done" /\ HasResult) =>
        /\ final_report = << render_report(MetaOut, QaOut) >>
        /\ "Could not parse the JSON file" \notin Messages

====
